---- MODULE Spec2Model ----
(***************************************************************************)
(* Model of the ESPHome video_player component                             *)
(* (components/video_player/video_player.cpp): the MJPEG header parser,    *)
(* the file and HTTP source drivers, the length-prefixed frame locator     *)
(* (read_next_frame) and the scheduler hook (loop).                        *)
(*                                                                         *)
(* Bytes are integers 0..255.  A buffer is a sequence of bytes; the C      *)
(* index i is the TLA+ index i + 1.  A uint32_t read from memory is kept   *)
(* as its four bytes in memory order (the target is little-endian), so     *)
(* that values of 2^31 and more are represented exactly.                   *)
(***************************************************************************)
EXTENDS Integers, Sequences, FiniteSets, TLC

(***************************************************************************)
(* Bounds of the model.                                                    *)
(***************************************************************************)
MaxFrames == 2      \* frames a generated stream holds
MaxTicks == 5       \* loop() ticks of one behaviour
MaxRxFrames == 2    \* raw JPEG frames of a response body
MaxChunkLen == 8    \* bytes of one chunk of a response body
MaxAccum == 1310720  \* bytes process_mjpeg_chunk is followed up to

(***************************************************************************)
(* Program constants.                                                      *)
(***************************************************************************)
HeaderSize == 20            \* sizeof(mjpeg_header_t)
FrameHeaderSize == 8        \* sizeof(mjpeg_frame_header_t)
MaxFrameSize == 1048576     \* 1024*1024, the frame size limit
HttpBufferSize == 1048576   \* http_buffer_size
MaxDim == 4096
MaxFrameCount == 10000
MaxFps == 120
DefaultWidth == 320
DefaultHeight == 240
DefaultFrameCount == 100
DefaultFps == 30
HttpRetryMs == 5000

Min(a, b) == IF a < b THEN a ELSE b

(***************************************************************************)
(* Bytes and 32-bit words.                                                 *)
(***************************************************************************)
B(buffer, i) == buffer[i + 1]

\* (buffer[i] << 8) | buffer[i+1]
BE16(buffer, i) == B(buffer, i) * 256 + B(buffer, i + 1)

\* the uint32_t that memcpy reads at offset off, as its bytes in memory order
U32At(buffer, off) ==
  <<B(buffer, off), B(buffer, off + 1), B(buffer, off + 2), B(buffer, off + 3)>>

\* the bytes of the uint32_t v < 2^24 in memory order
U32Of(v) == <<v % 256, (v \div 256) % 256, (v \div 65536) % 256, 0>>

U32IsZero(u) == u = <<0, 0, 0, 0>>

\* u > c as unsigned 32-bit numbers, for a constant c < 2^24
U32Gt(u, c) == u[4] > 0 \/ u[1] + u[2] * 256 + u[3] * 65536 > c

\* the number u, for u < 2^24
U32Val(u) == u[1] + u[2] * 256 + u[3] * 65536

bswap32(u) == <<u[4], u[3], u[2], u[1]>>

MJPEG_SIGNATURE == <<77, 74, 80, 71>>       \* 0x47504A4D, "MJPG" in memory
ALT_SIGNATURE == <<255, 216, 255, 254>>     \* 0xFEFFD8FF

(***************************************************************************)
(* parse_mjpeg_header.                                                     *)
(***************************************************************************)
BadDim_offbyone(u) == U32IsZero(u) \/ U32Gt(u, MaxDim + 1)
BadDim(u) == U32IsZero(u) \/ U32Gt(u, MaxDim)

BadFrameCount(u) == U32IsZero(u) \/ U32Gt(u, MaxFrameCount)

BadFps(u) == U32IsZero(u) \/ U32Gt(u, MaxFps)

\* buffer[pos+1] >= 0xC0 && <= 0xCF && != 0xC4 && != 0xC8
IsSofMarker(m) == m >= 192 /\ m <= 207 /\ m # 196 /\ m # 200

\* The while loop of the raw-JPEG path, from scan position pos: where it
\* stops, and whether it stopped on a start-of-frame marker.
RECURSIVE sof_scan(_, _)
sof_scan(buffer, pos) ==
  IF ~(pos + 8 < Len(buffer)) THEN [hit |-> FALSE, pos |-> pos]
  ELSE IF B(buffer, pos) = 255 /\ IsSofMarker(B(buffer, pos + 1))
       THEN [hit |-> TRUE, pos |-> pos]
  ELSE IF B(buffer, pos + 1) = 216 \/ B(buffer, pos + 1) = 217
       THEN sof_scan(buffer, pos + 2)
  ELSE sof_scan(buffer, pos + 2 + BE16(buffer, pos + 2))

Parsed(w, h, fc, fps) ==
  [ok |-> TRUE, width |-> w, height |-> h, frame_count |-> fc, fps |-> fps]

ParseFailed ==
  [ok |-> FALSE, width |-> 0, height |-> 0, frame_count |-> 0, fps |-> 0]

\* the is_standard_jpeg branch
parse_jpeg_swapped(buffer) ==
  LET s == sof_scan(buffer, 2)
      height == BE16(buffer, s.pos + 7)
      width == BE16(buffer, s.pos + 5)
  IN IF s.hit /\ width > 0 /\ width <= MaxDim /\ height > 0 /\ height <= MaxDim
     THEN Parsed(width, height, 1, DefaultFps)
     ELSE Parsed(DefaultWidth, DefaultHeight, 1, DefaultFps)
parse_jpeg(buffer) ==
  LET s == sof_scan(buffer, 2)
      height == BE16(buffer, s.pos + 5)
      width == BE16(buffer, s.pos + 7)
  IN IF s.hit /\ width > 0 /\ width <= MaxDim /\ height > 0 /\ height <= MaxDim
     THEN Parsed(width, height, 1, DefaultFps)
     ELSE Parsed(DefaultWidth, DefaultHeight, 1, DefaultFps)

\* one field of the unknown-signature branch: the value u when it is not
\* bad, else the byte-swapped value when that is not bad, else the default
Adjust(u, bad, bad_swapped, default) ==
  IF ~bad THEN U32Val(u)
  ELSE IF ~bad_swapped THEN U32Val(bswap32(u))
  ELSE default

\* the branch taken when the signature is none of the three the code knows
parse_unknown_signature(buffer) ==
  LET width == U32At(buffer, 4)
      height == U32At(buffer, 8)
      frame_count == U32At(buffer, 12)
      fps == U32At(buffer, 16)
  IN Parsed(Adjust(width, BadDim(width), BadDim(bswap32(width)), DefaultWidth),
            Adjust(height, BadDim(height), BadDim(bswap32(height)), DefaultHeight),
            Adjust(frame_count, BadFrameCount(frame_count),
                   BadFrameCount(bswap32(frame_count)), DefaultFrameCount),
            Adjust(fps, BadFps(fps), BadFps(bswap32(fps)), DefaultFps))

\* the branch taken when the signature is one the code knows
parse_container(buffer) ==
  LET swap == U32At(buffer, 0) = bswap32(MJPEG_SIGNATURE)
      F(off) == IF swap THEN bswap32(U32At(buffer, off)) ELSE U32At(buffer, off)
      baddims == BadDim(F(4)) \/ BadDim(F(8))
  IN Parsed(IF baddims THEN DefaultWidth ELSE U32Val(F(4)),
            IF baddims THEN DefaultHeight ELSE U32Val(F(8)),
            IF BadFrameCount(F(12)) THEN DefaultFrameCount ELSE U32Val(F(12)),
            IF BadFps(F(16)) THEN DefaultFps ELSE U32Val(F(16)))

KnownSignature(sig) ==
  sig = MJPEG_SIGNATURE \/ sig = bswap32(MJPEG_SIGNATURE) \/ sig = ALT_SIGNATURE

parse_mjpeg_header(buffer) ==
  IF Len(buffer) < HeaderSize THEN ParseFailed
  ELSE IF B(buffer, 0) = 255 /\ B(buffer, 1) = 216 THEN parse_jpeg(buffer)
  ELSE IF ~KnownSignature(U32At(buffer, 0)) THEN parse_unknown_signature(buffer)
  ELSE parse_container(buffer)

(***************************************************************************)
(* State.                                                                  *)
(***************************************************************************)
VARIABLES
  \* configuration, set before setup()
  source_, loop_video_, display_, http_url_,
  \* the file behind video_path_ or the response body behind http_url_: the
  \* header and frames its producer wrote, and the bytes they make
  src_header, src_frames, stream,
  \* the component
  pc, failed_, network_mutex_, spiffs_mounted_,
  video_width_, video_height_, frame_count_, video_fps_, update_interval_,
  video_file_, file_pos,
  http_initialized_, http_buffer_, http_buffer_size_allocated_,
  http_buffer_size_used_, http_buffer_pos_,
  last_update_, last_http_init_attempt_, current_frame_,
  \* millis() and the number of loop() ticks so far
  now, ticks,
  \* observation of read_next_frame: the number of calls, the last call, and
  \* the byte ranges <<offset, length>> passed to process_frame so far
  reads, last, handed,
  \* observation of open_http_source: the number of calls and how the last one
  \* ended; of the shared HTTP buffer state: who has read or written it so
  \* far, and the state of network_mutex_ at that moment
  opens, last_open, accesses,
  \* the display's size, and the observation of a direct process_frame call
  display_width_, display_height_, pf,
  \* observation of http_event_handler: the last HTTP_EVENT_ON_DATA it handled
  cb,
  \* process_mjpeg_chunk: its static jpg_buf and jpg_size, how many bytes of
  \* the response body the HTTP client has delivered, and the buffers passed
  \* to decode_jpeg so far
  jpg_buf, jpg_size, rx_pos, decodes,
  \* the start-of-frame scan of parse_mjpeg_header, taken one iteration at a
  \* time
  scan,
  \* input and result of a direct parse_mjpeg_header call
  p_buffer, p_ret

config_vars == <<source_, loop_video_, display_, http_url_, src_header, src_frames, stream>>

header_vars == <<video_width_, video_height_, frame_count_, video_fps_>>

file_vars == <<video_file_, file_pos, spiffs_mounted_>>

http_vars == <<http_initialized_, http_buffer_, http_buffer_size_allocated_,
               http_buffer_size_used_, http_buffer_pos_>>

play_vars == <<last_update_, current_frame_>>

obs_vars == <<reads, last, handed>>

open_obs_vars == <<opens, last_open>>

frame_vars == <<display_width_, display_height_, pf>>

chunk_vars == <<jpg_buf, jpg_size, rx_pos, decodes>>

parse_vars == <<p_buffer, p_ret>>

vars == <<config_vars, pc, failed_, network_mutex_, header_vars, update_interval_,
          file_vars, http_vars, play_vars, last_http_init_attempt_, now, ticks,
          obs_vars, open_obs_vars, accesses, frame_vars, cb, chunk_vars, scan, parse_vars>>

Null == "nullptr"

\* http_buffer_: nullptr, or an allocation and the bytes written to it so far
NullBuffer == [null |-> TRUE, data |-> <<>>]

Buffer(bytes) == [null |-> FALSE, data |-> bytes]

NoCall == [op |-> "none", ret |-> FALSE, before |-> 0, hdr_off |-> -1, range |-> <<>>]

NoFrame == [called |-> FALSE]

NoEvent == [handled |-> FALSE]

NoScan == [pc |-> "none"]

\* the members as the constructor leaves them
MembersInit ==
  /\ pc = "constructed"
  /\ failed_ = FALSE
  /\ network_mutex_ = Null
  /\ spiffs_mounted_ = FALSE
  /\ video_width_ = 0 /\ video_height_ = 0 /\ frame_count_ = 0 /\ video_fps_ = 0
  /\ update_interval_ = 0
  /\ video_file_ = FALSE /\ file_pos = 0
  /\ http_initialized_ = FALSE
  /\ http_buffer_ = NullBuffer
  /\ http_buffer_size_allocated_ = 0
  /\ http_buffer_size_used_ = 0
  /\ http_buffer_pos_ = 0
  /\ last_update_ = 0 /\ last_http_init_attempt_ = 0 /\ current_frame_ = 0
  /\ now = 0 /\ ticks = 0
  /\ reads = 0 /\ last = NoCall /\ handed = <<>>
  /\ opens = 0 /\ last_open = "none" /\ accesses = {}
  /\ pf = NoFrame /\ cb = NoEvent
  /\ jpg_buf = NullBuffer /\ jpg_size = 0 /\ rx_pos = 0 /\ decodes = <<>>
  /\ scan = NoScan

(***************************************************************************)
(* The bytes of the video file or of the HTTP response body.               *)
(***************************************************************************)
HeaderBytes(kind) ==
  CASE kind = "mjpg" -> MJPEG_SIGNATURE \o U32Of(4) \o U32Of(2) \o U32Of(2) \o U32Of(30)
    [] kind = "jpeg" -> <<255, 216, 255, 224, 0, 16, 74, 70, 73, 70,
                          0, 1, 1, 0, 0, 1, 0, 1, 0, 0>>
    [] kind = "short" -> MJPEG_SIGNATURE \o U32Of(4)

\* a frame as the producer wrote it: the size field, the timestamp, the payload
FrameBytes(f) == f.size \o <<0, 0, 0, 0>> \o [i \in 1..f.len |-> 1]

FrameKinds ==
  {[size |-> U32Of(1), len |-> 1],          \* well-formed, 1 byte
   [size |-> U32Of(2), len |-> 2],          \* well-formed, 2 bytes
   [size |-> U32Of(0), len |-> 0],          \* size field 0
   [size |-> <<0, 0, 32, 0>>, len |-> 1],   \* size field 2 MiB
   [size |-> U32Of(2), len |-> 1]}          \* payload cut short

FrameSeqs == UNION {[1..n -> FrameKinds] : n \in 0..MaxFrames}

RECURSIVE FramesBytes(_)
FramesBytes(fs) ==
  IF fs = <<>> THEN <<>> ELSE FrameBytes(Head(fs)) \o FramesBytes(Tail(fs))

StreamBytes(h, fs) == HeaderBytes(h) \o FramesBytes(fs)

(***************************************************************************)
(* open_file_source and open_http_source, as functions of the state and    *)
(* of what the environment answers.                                        *)
(***************************************************************************)
\* the header members after a parse_mjpeg_header call that returned r
HeaderOf(r) ==
  IF r.ok THEN r
  ELSE [ok |-> FALSE, width |-> video_width_, height |-> video_height_,
        frame_count |-> frame_count_, fps |-> video_fps_]

StoreHeader(h) ==
  /\ video_width_' = h.width
  /\ video_height_' = h.height
  /\ frame_count_' = h.frame_count
  /\ video_fps_' = h.fps

\* if (update_interval_ == 0 && video_fps_ > 0) update_interval_ = 1000 / video_fps_
IntervalAfter(fps) ==
  IF update_interval_ = 0 /\ fps > 0 THEN 1000 \div fps ELSE update_interval_

FileOutcomes == {"mount_failed", "fopen_failed", "opened"}

\* fseek(video_file, 0, SEEK_SET)
FileOpenPos(hsize) == 0

open_file_source(env) ==
  LET read_size == Min(256, Len(stream))
      r == parse_mjpeg_header(SubSeq(stream, 1, read_size))
      failed(mounted, hdr) ==
        [ok |-> FALSE, spiffs_mounted |-> mounted, video_file |-> FALSE,
         file_pos |-> file_pos, header |-> hdr, update_interval |-> update_interval_]
  IN IF env = "mount_failed" THEN failed(spiffs_mounted_, HeaderOf(ParseFailed))
     ELSE IF env = "fopen_failed" THEN failed(TRUE, HeaderOf(ParseFailed))
     ELSE IF read_size < 20 THEN failed(TRUE, HeaderOf(ParseFailed))
     ELSE IF ~r.ok THEN failed(TRUE, HeaderOf(r))
     ELSE [ok |-> TRUE, spiffs_mounted |-> TRUE, video_file |-> TRUE,
           file_pos |-> FileOpenPos(HeaderSize), header |-> HeaderOf(r),
           update_interval |-> IntervalAfter(r.fps)]

HttpOutcomes ==
  {"netif_down", "mutex_timeout", "alloc_failed", "client_failed", "connect_failed",
   "bad_status", "ok"}

OpenRefused_reset(why) ==
  [ok |-> FALSE, why |-> why, mutex |-> network_mutex_, buffer |-> http_buffer_,
   allocated |-> http_buffer_size_allocated_, used |-> 0, pos |-> 0,
   header |-> HeaderOf(ParseFailed), update_interval |-> update_interval_]
\* a return false that comes before the buffer is touched: the URL checks,
\* the interface check, the mutex that could not be taken
OpenRefused(why) ==
  [ok |-> FALSE, why |-> why, mutex |-> network_mutex_, buffer |-> http_buffer_,
   allocated |-> http_buffer_size_allocated_, used |-> http_buffer_size_used_,
   pos |-> http_buffer_pos_, header |-> HeaderOf(ParseFailed),
   update_interval |-> update_interval_]

MutexAtReturn_leak(why) == IF why = "ok" THEN "free" ELSE "held"
\* network_mutex_ after a return that follows xSemaphoreTake: mutex_guard
\* calls xSemaphoreGive when it goes out of scope
MutexAtReturn(why) == "free"

\* the returns that come before xSemaphoreTake succeeded
BeforeMutex == {"bad_url", "netif_down", "mutex_timeout"}

\* the returns that come after the response body was read
AfterBody == {"short", "bad_header", "ok"}

open_http_source(env) ==
  LET total_read == Min(Len(stream), HttpBufferSize)
      data == SubSeq(stream, 1, total_read)
      r == parse_mjpeg_header(data)
      result(why, buf, alloc, used, pos, hdr, interval) ==
        [ok |-> why = "ok", why |-> why, mutex |-> MutexAtReturn(why),
         buffer |-> buf, allocated |-> alloc,
         used |-> used, pos |-> pos, header |-> hdr, update_interval |-> interval]
      fresh(why, bytes, pos, hdr, interval) ==
        result(why, Buffer(bytes), HttpBufferSize, Len(bytes), pos, hdr, interval)
  IN IF http_url_ = Null \/ http_url_ = "malformed" THEN OpenRefused("bad_url")
     ELSE IF env = "netif_down" THEN OpenRefused("netif_down")
     ELSE IF network_mutex_ # "free" \/ env = "mutex_timeout"
          THEN OpenRefused("mutex_timeout")
     ELSE IF env = "alloc_failed"
          THEN result("alloc_failed", NullBuffer, http_buffer_size_allocated_,
                      http_buffer_size_used_, http_buffer_pos_, HeaderOf(ParseFailed),
                      update_interval_)
     ELSE IF env \in {"client_failed", "connect_failed", "bad_status"}
          THEN fresh(env, <<>>, 0, HeaderOf(ParseFailed), update_interval_)
     ELSE IF total_read < 20
          THEN fresh("short", data, 0, HeaderOf(ParseFailed), update_interval_)
     ELSE IF ~r.ok THEN fresh("bad_header", data, 0, HeaderOf(r), update_interval_)
     ELSE fresh("ok", data, HeaderSize, HeaderOf(r), IntervalAfter(r.fps))

(***************************************************************************)
(* read_next_frame, as a function of the source state: the value it        *)
(* returns, the cursor it leaves, the offset of the frame header it        *)
(* examined (-1: none) and the byte range it passed to process_frame       *)
(* (<<>>: none).  decoded is what process_frame returns when called.       *)
(***************************************************************************)
ReadResult(ret, cursor, hdr_off, range) ==
  [ret |-> ret, cursor |-> cursor, hdr_off |-> hdr_off, range |-> range]

FileRestart_rewind(fpos) == 0
\* fseek(video_file_, sizeof(mjpeg_header_t), SEEK_SET)
FileRestart(fpos) == HeaderSize

read_next_frame_file(open, fpos, alloc_ok, decoded) ==
  LET got == Min(FrameHeaderSize, Len(stream) - fpos)
      size == U32At(stream, fpos)
      p1 == fpos + FrameHeaderSize
      n == Min(U32Val(size), Len(stream) - p1)
  IN IF ~open THEN ReadResult(FALSE, fpos, -1, <<>>)
     ELSE IF got # FrameHeaderSize THEN ReadResult(FALSE, FileRestart(fpos + got), -1, <<>>)
     ELSE IF U32Gt(size, MaxFrameSize) THEN ReadResult(FALSE, p1, fpos, <<>>)
     ELSE IF ~alloc_ok THEN ReadResult(FALSE, p1, fpos, <<>>)
     ELSE IF n # U32Val(size) THEN ReadResult(FALSE, p1 + n, fpos, <<>>)
     ELSE ReadResult(decoded, p1 + n, fpos, <<p1, n>>)

\* http_buffer_pos_ + sizeof(mjpeg_frame_header_t) >= http_buffer_size_used_
HttpAtEnd(pos, used) == pos + FrameHeaderSize >= used

HttpRestart_rewind(pos) == 0
HttpRestart_stay(pos) == pos
\* http_buffer_pos_ = sizeof(mjpeg_header_t)
HttpRestart(pos) == HeaderSize

HttpPayload_noskip(hdr_off) == hdr_off
\* http_buffer_pos_ += sizeof(mjpeg_frame_header_t)
HttpPayload(hdr_off) == hdr_off + FrameHeaderSize

HttpPayloadCut_never(pos, size, used) == FALSE
\* http_buffer_pos_ + header.size > http_buffer_size_used_
HttpPayloadCut(pos, size, used) == pos + size > used

read_next_frame_http(buf, used, pos, decoded) ==
  LET exhausted == buf.null \/ HttpAtEnd(pos, used)
      p0 == IF exhausted THEN HttpRestart(pos) ELSE pos
      size == U32At(buf.data, p0)
      p1 == HttpPayload(p0)
  IN IF exhausted /\ ~loop_video_ THEN ReadResult(FALSE, pos, -1, <<>>)
     ELSE IF exhausted /\ HttpAtEnd(p0, used) THEN ReadResult(FALSE, p0, -1, <<>>)
     ELSE IF U32Gt(size, MaxFrameSize) \/ U32IsZero(size)
          THEN ReadResult(FALSE, p1, p0, <<>>)
     ELSE IF HttpPayloadCut(p1, U32Val(size), used) THEN ReadResult(FALSE, p1, p0, <<>>)
     ELSE ReadResult(decoded, p1 + U32Val(size), p0, <<p1, U32Val(size)>>)

(***************************************************************************)
(* setup() and loop().                                                     *)
(***************************************************************************)
SetupFailed_openonly(mutex_ok, open_ok) == ~open_ok
\* mark_failed() in init_mutex when no mutex was created, and in setup() when
\* open_file_source returned false
SetupFailed(mutex_ok, open_ok) == ~mutex_ok \/ ~open_ok

\* mutex_ok: xSemaphoreCreateMutex() returned a mutex; env: what the file
\* system answers
Setup(mutex_ok, env) ==
  /\ pc = "constructed"
  /\ pc' = "running"
  /\ IF ~display_
     THEN /\ failed_' = TRUE
          /\ UNCHANGED <<network_mutex_, header_vars, update_interval_, file_vars>>
     ELSE /\ network_mutex_' = IF mutex_ok THEN "free" ELSE Null
          /\ IF source_ = "FILE"
             THEN LET o == open_file_source(env)
                  IN /\ failed_' = SetupFailed(mutex_ok, o.ok)
                     /\ spiffs_mounted_' = o.spiffs_mounted
                     /\ video_file_' = o.video_file
                     /\ file_pos' = o.file_pos
                     /\ StoreHeader(o.header)
                     /\ update_interval_' = o.update_interval
             ELSE /\ failed_' = SetupFailed(mutex_ok, TRUE)
                  /\ UNCHANGED <<header_vars, update_interval_, file_vars>>
  /\ http_initialized_' = IF display_ /\ source_ = "HTTP" THEN FALSE ELSE http_initialized_
  /\ UNCHANGED <<config_vars, http_buffer_, http_buffer_size_allocated_,
                 http_buffer_size_used_, http_buffer_pos_, play_vars,
                 last_http_init_attempt_, now, ticks, obs_vars, open_obs_vars,
                 accesses, frame_vars, cb, chunk_vars, scan, parse_vars>>

TickDeltas == {20, 5000}

\* the HTTP members as they are, in the shape open_http_source returns
HttpState ==
  [ok |-> FALSE, why |-> "none", mutex |-> network_mutex_, buffer |-> http_buffer_, allocated |-> http_buffer_size_allocated_,
   used |-> http_buffer_size_used_, pos |-> http_buffer_pos_,
   header |-> HeaderOf(ParseFailed), update_interval |-> update_interval_]

RetryElapsed_inclusive(t, last_attempt) == t - last_attempt >= HttpRetryMs
\* now - last_http_init_attempt_ > 5000
RetryElapsed(t, last_attempt) == t - last_attempt > HttpRetryMs

InitGateStops_fallthrough(need_init, attempt, ok) == need_init /\ ~attempt
\* the two "return" of the initialisation block: too early to try, or the
\* attempt failed
InitGateStops(need_init, attempt, ok) == need_init /\ (~attempt \/ ~ok)

\* if (now - last_update_ < update_interval_) return
FrameGate(t, last_update, interval) == ~(t - last_update < interval)

NextFrameNumber_always(cur, delivered) == cur + 1
\* if (read_next_frame()) { ...; current_frame_++; }
NextFrameNumber(cur, delivered) == IF delivered THEN cur + 1 ELSE cur

\* who touches http_buffer_, http_buffer_size_used_ and http_buffer_pos_ in
\* an open_http_source call that ended as o: the function itself once it holds
\* the mutex, and http_event_handler, which the client calls from
\* esp_http_client_read while the function still holds it
OpenAccesses(o) ==
  IF o.why \in BeforeMutex THEN {}
  ELSE {[by |-> "open_http_source", mutex |-> "held"]}
       \cup IF o.why \in AfterBody /\ stream # <<>>
            THEN {[by |-> "http_event_handler", mutex |-> "held"]}
            ELSE {}

\* read_next_frame takes no mutex: it runs with network_mutex_ as it is
ReadAccesses == {[by |-> "read_next_frame", mutex |-> network_mutex_]}

\* One loop() call at millis() = now + d.  env: what the network answers to
\* open_http_source; alloc_ok: the JPEG buffer was allocated; decoded: what
\* process_frame returns.
Loop(d, env, alloc_ok, decoded) ==
  LET t == now + d
      need_init == source_ = "HTTP" /\ ~http_initialized_
      attempt == need_init /\ RetryElapsed(t, last_http_init_attempt_)
  IN /\ pc = "running" /\ ~failed_
     /\ ticks < MaxTicks
     /\ ticks' = ticks + 1
     /\ now' = t
     /\ last_http_init_attempt_' = IF attempt THEN t ELSE last_http_init_attempt_
     /\ \E o \in {IF attempt THEN open_http_source(env) ELSE HttpState} :
          LET stop == InitGateStops(need_init, attempt, o.ok)
              fire == ~stop /\ FrameGate(t, last_update_, o.update_interval)
          IN /\ http_initialized_' = (http_initialized_ \/ (attempt /\ o.ok))
             /\ network_mutex_' = o.mutex
             /\ http_buffer_' = o.buffer
             /\ http_buffer_size_allocated_' = o.allocated
             /\ http_buffer_size_used_' = o.used
             /\ StoreHeader(o.header)
             /\ update_interval_' = o.update_interval
             /\ opens' = IF attempt THEN opens + 1 ELSE opens
             /\ last_open' = IF attempt THEN o.why ELSE last_open
             /\ accesses' = accesses
                              \cup (IF attempt THEN OpenAccesses(o) ELSE {})
                              \cup (IF fire /\ source_ = "HTTP" THEN ReadAccesses ELSE {})
             /\ IF fire
                THEN \E r \in {IF source_ = "FILE"
                               THEN read_next_frame_file(video_file_, file_pos, alloc_ok, decoded)
                               ELSE read_next_frame_http(o.buffer, o.used, o.pos, decoded)} :
                       /\ last_update_' = t
                       /\ http_buffer_pos_' = IF source_ = "HTTP" THEN r.cursor ELSE o.pos
                       /\ file_pos' = IF source_ = "FILE" THEN r.cursor ELSE file_pos
                       /\ current_frame_' = NextFrameNumber(current_frame_, r.ret)
                       /\ reads' = reads + 1
                       /\ last' = [op |-> "read_next_frame", ret |-> r.ret,
                                   before |-> IF source_ = "FILE" THEN file_pos ELSE o.pos,
                                   hdr_off |-> r.hdr_off, range |-> r.range]
                       /\ handed' = IF r.range = <<>> THEN handed ELSE Append(handed, r.range)
                ELSE /\ http_buffer_pos_' = o.pos
                     /\ UNCHANGED <<file_pos, play_vars, obs_vars>>
     /\ UNCHANGED <<config_vars, pc, failed_, video_file_,
                    spiffs_mounted_, frame_vars, cb, chunk_vars, scan, parse_vars>>

StreamSamples ==
  {<<h, fs>> : h \in {"mjpg", "jpeg"}, fs \in FrameSeqs} \cup {<<"short", <<>>>>}

\* every sample stream with a display and a well-formed URL configured; the
\* other configurations with one stream
ConfigSamples ==
  {<<src, lp, TRUE, "http", s>> :
     src \in {"FILE", "HTTP"}, lp \in BOOLEAN, s \in StreamSamples}
  \cup
  {<<src, TRUE, dsp, url, <<"mjpg", <<[size |-> U32Of(1), len |-> 1]>>>>>> :
     src \in {"FILE", "HTTP"}, dsp \in BOOLEAN, url \in {Null, "malformed", "http"}}

Init ==
  /\ MembersInit
  /\ \E c \in ConfigSamples :
       /\ source_ = c[1] /\ loop_video_ = c[2] /\ display_ = c[3] /\ http_url_ = c[4]
       /\ src_header = c[5][1] /\ src_frames = c[5][2]
       /\ stream = StreamBytes(c[5][1], c[5][2])
  /\ display_width_ = 64 /\ display_height_ = 64
  /\ p_buffer = <<>> /\ p_ret = "none"

Next ==
  \/ \E mutex_ok \in BOOLEAN, env \in FileOutcomes : Setup(mutex_ok, env)
  \/ \E d \in TickDeltas :
       \E env \in IF /\ source_ = "HTTP" /\ ~http_initialized_
                     /\ RetryElapsed(now + d, last_http_init_attempt_)
                  THEN HttpOutcomes ELSE {"ok"},
          alloc_ok \in IF source_ = "FILE" THEN BOOLEAN ELSE {TRUE},
          decoded \in BOOLEAN :
         Loop(d, env, alloc_ok, decoded)

Spec == Init /\ [][Next]_vars

(***************************************************************************)
(* Direct calls of parse_mjpeg_header on sample buffers.                   *)
(***************************************************************************)
SigSamples == {MJPEG_SIGNATURE, bswap32(MJPEG_SIGNATURE), <<82, 73, 70, 70>>, <<0, 0, 0, 0>>}

\* 0, 1, 121, 4096, 4097, 10001, and the byte-swapped 2 and 4097
FieldSamples ==
  {<<0, 0, 0, 0>>, <<1, 0, 0, 0>>, <<121, 0, 0, 0>>, <<0, 16, 0, 0>>, <<1, 16, 0, 0>>,
   <<17, 39, 0, 0>>, <<0, 0, 0, 2>>, <<0, 0, 16, 1>>}

ContainerSamples ==
  {sig \o w \o h \o fc \o fps :
     sig \in SigSamples, w \in FieldSamples, h \in FieldSamples,
     fc \in FieldSamples, fps \in FieldSamples}

Zeros(n) == [i \in 1..n |-> 0]

PadTo(buffer, n) == IF Len(buffer) >= n THEN buffer ELSE buffer \o Zeros(n - Len(buffer))

\* what follows the start-of-image marker and precedes the start-of-frame segment
JpegPrefixSamples ==
  {<<>>,
   <<255, 224, 0, 2>>,                       \* APP0 segment of length 2
   <<255, 224, 0, 8, 0, 0, 0, 0, 0, 0>>,     \* APP0 segment of length 8
   <<255, 224, 0, 0>>,                       \* segment that declares length 0
   <<255, 254, 255, 255>>,                   \* segment longer than the buffer
   <<255, 216>>, <<255, 217>>,               \* SOI, EOI: no length
   <<0, 0, 0, 0>>}                           \* no marker at all

JpegMarkerSamples == {192, 194, 207, 196, 200, 218}

Dim16Samples == {<<0, 0>>, <<0, 1>>, <<16, 0>>, <<16, 1>>}

JpegSamples ==
  {SubSeq(PadTo(<<255, 216>> \o pre \o <<255, m, 0, 11, 8>> \o h \o w, HeaderSize + cut),
          1, Len(PadTo(<<255, 216>> \o pre \o <<255, m, 0, 11, 8>> \o h \o w, HeaderSize + cut)) - cut) :
     pre \in JpegPrefixSamples, m \in JpegMarkerSamples,
     h \in Dim16Samples, w \in Dim16Samples, cut \in {0, 1}}

ShortSamples ==
  {SubSeq(MJPEG_SIGNATURE \o Zeros(16), 1, 19), <<255, 216>>, <<>>}

ParseSamples == ContainerSamples \cup JpegSamples \cup ShortSamples

InitParse ==
  /\ MembersInit
  /\ source_ = "FILE" /\ loop_video_ = TRUE /\ display_ = TRUE /\ http_url_ = "http"
  /\ src_header = "mjpg" /\ src_frames = <<>>
  /\ stream = StreamBytes(src_header, src_frames)
  /\ display_width_ = 64 /\ display_height_ = 64
  /\ p_buffer \in ParseSamples
  /\ p_ret = "none"

\* bool ok = parse_mjpeg_header(p_buffer, Len(p_buffer))
ParseCall ==
  /\ p_ret = "none"
  /\ LET r == parse_mjpeg_header(p_buffer)
     IN /\ p_ret' = IF r.ok THEN "true" ELSE "false"
        /\ StoreHeader(HeaderOf(r))
  /\ UNCHANGED <<config_vars, pc, failed_, network_mutex_, update_interval_, file_vars,
                 http_vars, play_vars, last_http_init_attempt_, now, ticks, obs_vars,
                 open_obs_vars, accesses, frame_vars, cb, chunk_vars, scan,
                 p_buffer>>

NextParse == ParseCall

SpecParse == InitParse /\ [][NextParse]_vars

StartsWithSoi(buffer) == Len(buffer) >= 2 /\ B(buffer, 0) = 255 /\ B(buffer, 1) = 216

\* C1: parse_mjpeg_header returns false for every buffer of at least 20 bytes
\* that does not begin with 0xFF 0xD8 and whose signature is none of the
\* recognized ones.
C1_UnrecognizedSignatureFails ==
  (/\ p_ret # "none"
   /\ Len(p_buffer) >= HeaderSize
   /\ ~StartsWithSoi(p_buffer)
   /\ ~KnownSignature(U32At(p_buffer, 0)))
  => p_ret = "false"

\* C2: after every successful parse_mjpeg_header call the stored header has
\* 0 < width <= 4096, 0 < height <= 4096, 0 < fps <= 120 and frame_count > 0.
C2_HeaderInRange ==
  p_ret = "true" =>
    /\ 0 < video_width_ /\ video_width_ <= 4096
    /\ 0 < video_height_ /\ video_height_ <= 4096
    /\ 0 < video_fps_ /\ video_fps_ <= 120
    /\ frame_count_ > 0

\* a successful parse of a container header whose declared width is too large
\* directly and byte-swapped, and whose declared fps is 0
C2_Witness ==
  /\ p_ret = "true"
  /\ ~StartsWithSoi(p_buffer)
  /\ U32At(p_buffer, 4) = <<0, 0, 16, 1>>
  /\ U32IsZero(U32At(p_buffer, 16))

\* u in lo..hi as an unsigned 32-bit number, for hi < 2^24
U32In(u, lo, hi) == u[4] = 0 /\ U32Val(u) >= lo /\ U32Val(u) <= hi

\* the declared field u read directly when that lies in 1..hi, else
\* byte-swapped when that lies in 1..hi, else the default
Repaired(u, hi, default) ==
  IF U32In(u, 1, hi) THEN U32Val(u)
  ELSE IF U32In(bswap32(u), 1, hi) THEN U32Val(bswap32(u))
  ELSE default

\* C3: with the recognized MJPG signature each of width, height, frame_count
\* and fps is repaired on its own: kept when in range, else byte-swapped when
\* that is in range, else replaced by its default (320, 240, 100, 30).
C3_FieldsRepairedIndependently ==
  (/\ p_ret = "true"
   /\ U32At(p_buffer, 0) = MJPEG_SIGNATURE)
  => /\ video_width_ = Repaired(U32At(p_buffer, 4), 4096, 320)
     /\ video_height_ = Repaired(U32At(p_buffer, 8), 4096, 240)
     /\ frame_count_ = Repaired(U32At(p_buffer, 12), 10000, 100)
     /\ video_fps_ = Repaired(U32At(p_buffer, 16), 120, 30)

\* C4: every buffer of at least 20 bytes that begins with 0xFF 0xD8 parses
\* successfully with frame_count 1 and fps 30; the dimensions are the
\* big-endian height and width of the start-of-frame segment the scan stops
\* on when both are in 1..4096, and 320x240 otherwise.
C4_RawJpegHeader ==
  (/\ p_ret # "none"
   /\ Len(p_buffer) >= 20
   /\ StartsWithSoi(p_buffer))
  => /\ p_ret = "true"
     /\ frame_count_ = 1
     /\ video_fps_ = 30
     /\ \/ video_width_ = 320 /\ video_height_ = 240
        \/ \E p \in 2..(Len(p_buffer) - 9) :
             /\ B(p_buffer, p) = 255 /\ IsSofMarker(B(p_buffer, p + 1))
             /\ video_height_ = B(p_buffer, p + 5) * 256 + B(p_buffer, p + 6)
             /\ video_width_ = B(p_buffer, p + 7) * 256 + B(p_buffer, p + 8)
             /\ video_height_ \in 1..4096 /\ video_width_ \in 1..4096
     /\ LET s == sof_scan(p_buffer, 2)
        IN (/\ s.hit
            /\ BE16(p_buffer, s.pos + 5) \in 1..4096
            /\ BE16(p_buffer, s.pos + 7) \in 1..4096)
           => /\ video_height_ = BE16(p_buffer, s.pos + 5)
              /\ video_width_ = BE16(p_buffer, s.pos + 7)

\* a raw JPEG whose start-of-frame segment follows an APP0 segment and
\* declares 4096 x 1
C4_Witness ==
  /\ p_ret = "true"
  /\ StartsWithSoi(p_buffer)
  /\ B(p_buffer, 3) = 224
  /\ video_width_ = 4096 /\ video_height_ = 1

(***************************************************************************)
(* The frame locator.                                                      *)
(***************************************************************************)
\* every frame carries the payload its size field declares
WellFormed(fs) ==
  \A i \in 1..Len(fs) : fs[i].len >= 1 /\ fs[i].size = U32Of(fs[i].len)

\* the payload ranges <<offset, length>> of frames fs written from offset off
RECURSIVE PayloadRanges(_, _)
PayloadRanges(fs, off) ==
  IF fs = <<>> THEN <<>>
  ELSE <<<<off + 8, Head(fs).len>>>> \o PayloadRanges(Tail(fs), off + 8 + Head(fs).len)

\* C5: on an HTTP buffer that holds the 20-byte stream header and k
\* well-formed frames back to back, with looping disabled, the first k
\* read_next_frame calls pass exactly the k payload ranges to the decoder, in
\* order, each starting right after its 8-byte frame header, the cursor
\* advancing by 8 + size per call; every later call reports no frame.
C5_FramesInOrder ==
  (/\ source_ = "HTTP" /\ ~loop_video_ /\ http_initialized_
   /\ src_header = "mjpg" /\ WellFormed(src_frames))
  => LET k == Len(src_frames)
         n == Min(reads, k)
         expected == PayloadRanges(src_frames, 20)
     IN /\ handed = SubSeq(expected, 1, n)
        /\ http_buffer_pos_ = IF n = 0 THEN 20 ELSE expected[n][1] + expected[n][2]
        /\ reads \in 1..k =>
             /\ last.range = expected[reads]
             /\ last.hdr_off = last.before
             /\ last.range[1] = last.before + 8
             /\ http_buffer_pos_ = last.before + 8 + last.range[2]
        /\ reads > k => ~last.ret /\ last.range = <<>> /\ http_buffer_pos_ = last.before

\* two well-formed frames were passed to the decoder and a third call found none
C5_Witness ==
  /\ source_ = "HTTP" /\ ~loop_video_ /\ http_initialized_
  /\ src_header = "mjpg" /\ WellFormed(src_frames)
  /\ Len(src_frames) = 2 /\ reads = 3
  /\ Len(handed) = 2 /\ ~last.ret

\* the size field of the frame header the last read_next_frame call examined
LastSize ==
  IF source_ = "FILE" THEN U32At(stream, last.hdr_off)
  ELSE U32At(http_buffer_.data, last.hdr_off)

InvalidSize(u) == U32IsZero(u) \/ U32Gt(u, 1048576)

\* C6: when read_next_frame (HTTP) rejects a frame because its size field is
\* invalid or because cursor + 8 + size exceeds the bytes buffered,
\* http_buffer_pos_ is the same after the call as before it.
C6_RejectKeepsCursor ==
  (/\ source_ = "HTTP" /\ last.op = "read_next_frame"
   /\ last.hdr_off = last.before
   /\ \/ InvalidSize(LastSize)
      \/ last.before + 8 + U32Val(LastSize) > http_buffer_size_used_)
  => http_buffer_pos_ = last.before

\* C7: for the FILE and the HTTP source, a frame header whose size is 0 or
\* more than 1 MiB makes read_next_frame return false without calling
\* process_frame, and the component is not marked failed.
C7_CorruptSizeNotDecoded ==
  (/\ last.op = "read_next_frame"
   /\ last.hdr_off >= 0
   /\ InvalidSize(LastSize))
  => ~last.ret /\ last.range = <<>> /\ ~failed_

\* C8: after open_file_source succeeded the file position is 20, right after
\* the stream header, and the first read_next_frame call examines the frame
\* header at offset 20.
C8_FileOpensAtPayload ==
  (source_ = "FILE" /\ video_file_)
  => /\ reads = 0 => file_pos = 20
     /\ (reads = 1 /\ last.hdr_off >= 0) => last.hdr_off = 20

\* C9: when the source begins with 0xFF 0xD8 (a raw JPEG stream), frames are
\* located from the first buffered byte: no 20-byte container header is
\* skipped and read_next_frame examines no 8-byte frame header.
C9_RawJpegNotLengthPrefixed ==
  (StartsWithSoi(stream) /\ Len(stream) >= 20)
  => /\ (source_ = "HTTP" /\ http_initialized_ /\ reads = 0) => http_buffer_pos_ = 0
     /\ last.op = "read_next_frame" => last.hdr_off = -1

\* C10: with the loop flag set, a read_next_frame call that finds the data
\* exhausted (HTTP: cursor + 8 >= used; FILE: fewer than 8 bytes left) moves
\* the cursor to byte 20, never to 0: the HTTP call goes on with the frame
\* header at 20, or reports no frame with the cursor at 20 when no more than
\* 8 bytes follow byte 20; the FILE call leaves the file position at 20 and
\* reports no frame.
C10_LoopRestartsAtPayload ==
  (last.op = "read_next_frame" /\ loop_video_)
  => /\ (source_ = "HTTP" /\ last.before + 8 >= http_buffer_size_used_)
        => /\ \/ last.hdr_off = 20
              \/ last.hdr_off = -1 /\ http_buffer_pos_ = 20
           /\ http_buffer_pos_ >= 20
           /\ http_buffer_size_used_ < 20 + 8 + 1
                => ~last.ret /\ last.range = <<>> /\ http_buffer_pos_ = 20
     /\ (source_ = "FILE" /\ video_file_ /\ Len(stream) - last.before < 8)
        => file_pos = 20 /\ ~last.ret /\ last.range = <<>>

\* an HTTP call that found the buffer exhausted, restarted and passed the
\* first frame to the decoder again
C10_Witness ==
  /\ source_ = "HTTP" /\ loop_video_ /\ last.op = "read_next_frame"
  /\ last.before + 8 >= http_buffer_size_used_
  /\ last.before > 20
  /\ last.hdr_off = 20 /\ last.range # <<>> /\ last.range[1] = 28

\* the read cursor of the configured source
Cursor == IF source_ = "FILE" THEN file_pos ELSE http_buffer_pos_

\* the last read_next_frame call found the end of the data: fewer than 8
\* bytes left in the file, or cursor + 8 >= used in the buffer
LastAtEnd ==
  /\ last.op = "read_next_frame"
  /\ IF source_ = "FILE"
     THEN video_file_ /\ Len(stream) - last.before < FrameHeaderSize
     ELSE HttpAtEnd(last.before, http_buffer_size_used_)

\* C11: with the loop flag not set, a read_next_frame call that finds the end
\* of the data (FILE or HTTP) reports no frame and does not move the cursor
\* back: the cursor is not before where the call found it, so every later
\* call finds the end again.
C11_NoLoopNoRestart ==
  (~loop_video_ /\ LastAtEnd)
  => ~last.ret /\ last.range = <<>> /\ Cursor >= last.before

\* the last read_next_frame call passed a frame to process_frame and
\* process_frame returned false
LastDecodeFailed == last.op = "read_next_frame" /\ last.range # <<>> /\ ~last.ret

\* C12: a read_next_frame call whose frame process_frame fails to decode
\* leaves current_frame_ as it was and the component not failed, and leaves
\* the cursor right after that frame's payload; the next read_next_frame call
\* starts from there, that is at the header of the following frame.
C12_DecodeFailureSkipsFrame ==
  [][reads' = reads + 1
     => /\ LastDecodeFailed'
           => /\ current_frame_' = current_frame_
              /\ ~failed_'
              /\ Cursor' = last'.range[1] + last'.range[2]
        /\ LastDecodeFailed => last'.before = last.range[1] + last.range[2]]_vars

\* two different frames were passed to process_frame one after the other and
\* both decodes failed
C12_Witness ==
  /\ source_ = "HTTP" /\ src_header = "mjpg" /\ WellFormed(src_frames)
  /\ LastDecodeFailed
  /\ Len(handed) = 2 /\ handed[1][1] < handed[2][1]
  /\ current_frame_ = 0 /\ ~failed_
  /\ last.before = handed[1][1] + handed[1][2]
  /\ last.hdr_off = last.before

\* C13: loop() calls read_next_frame only when now - last_update_ >=
\* update_interval_, and a call that reports no frame (or an error) leaves
\* both current_frame_ and last_update_ as they were.
C13_NoFrameNoUpdate ==
  [][reads' = reads + 1
     => /\ now' - last_update_ >= update_interval_'
        /\ ~last'.ret
           => current_frame_' = current_frame_ /\ last_update_' = last_update_]_vars

\* C14: an open_http_source call that fails because the network interface is
\* not ready changes nothing but the time of the last attempt, which becomes
\* the time of the tick: http_buffer_, the used count, the cursor, the header
\* fields and http_initialized_ keep their values.  No open_http_source call,
\* however it ends, marks the component failed.
C14_NetifDownChangesNothing ==
  [][opens' = opens + 1
     => /\ ~failed_'
        /\ last_open' = "netif_down"
           => /\ last_http_init_attempt_' = now'
              /\ UNCHANGED <<http_vars, header_vars, update_interval_, play_vars,
                             file_vars, network_mutex_, pc, failed_, obs_vars>>]_vars

\* a second attempt found the interface down after a first one had left a
\* buffer behind
C14_Witness ==
  /\ opens >= 2 /\ last_open = "netif_down"
  /\ last_http_init_attempt_ = now
  /\ ~http_buffer_.null /\ http_buffer_size_used_ > 0
  /\ ~http_initialized_ /\ ~failed_

\* C15: as long as the source is HTTP and http_initialized_ is false, no
\* loop() tick has called read_next_frame: nothing was passed to the decoder
\* (so the display was neither cleared nor updated), and current_frame_ and
\* last_update_ still have the values they started with.
C15_NoFrameBeforeOpen ==
  (source_ = "HTTP" /\ ~http_initialized_)
  => reads = 0 /\ handed = <<>> /\ current_frame_ = 0 /\ last_update_ = 0

\* ticks have come and an attempt has failed; the frame gate would let a
\* read through
C15_Witness ==
  /\ source_ = "HTTP" /\ ~http_initialized_ /\ pc = "running"
  /\ opens >= 1 /\ ticks >= 3
  /\ now > HttpRetryMs /\ now - last_update_ >= update_interval_

\* C16: once an open_http_source attempt has failed at time T, a loop() tick
\* of the still uninitialised HTTP source makes a new attempt exactly when
\* now - T > 5000: none while now - T <= 5000, one on the first tick past it,
\* and so on after every failure, without a limit on the number of attempts.
\* T is the time of the tick that made the attempt.
C16_RetryAfterFiveSeconds ==
  [][(ticks' = ticks + 1 /\ source_ = "HTTP")
     => /\ opens' = opens + 1 => last_http_init_attempt_' = now'
        /\ (~http_initialized_ /\ opens >= 1)
           => (opens' = opens + 1 <=> now' - last_http_init_attempt_ > 5000)]_vars

\* a first attempt failed at 5020, the tick at 10020 (5000 ms later) made no
\* attempt, the tick at 10040 made the second
C16_Witness ==
  /\ source_ = "HTTP" /\ opens = 2 /\ ticks = 4
  /\ now = 10040 /\ last_http_init_attempt_ = now

\* C19: every read or write of http_buffer_, http_buffer_size_used_ and
\* http_buffer_pos_ by http_event_handler, open_http_source and
\* read_next_frame happens while network_mutex_ is held.
C19_SharedStateUnderMutex == \A a \in accesses : a.mutex = "held"

(***************************************************************************)
(* process_frame: the RGB565 buffer, the decoder scale, and the blit to    *)
(* the display.                                                            *)
(***************************************************************************)
\* const size_t max_rgb_buf_size = 256*256*2
MaxRgbBufSize == 131072

\* rgb_buf_size = video_width_ * video_height_ * 2, limited to max_rgb_buf_size
rgb_buf_size(w, h) == Min(w * h * 2, MaxRgbBufSize)

\* JPG_SCALE_2X when the video is more than twice the display in a dimension
ChooseScale(w, h, dw, dh) ==
  IF w > dw * 2 \/ h > dh * 2 THEN "JPG_SCALE_2X" ELSE "JPG_SCALE_NONE"

\* (scale == JPG_SCALE_NONE) ? v : (v / 2)
ScaledDim(scale, v) == IF scale = "JPG_SCALE_NONE" THEN v ELSE v \div 2

\* the bytes jpg2rgb565 writes to rgb_buf: an RGB565 image of the scaled size
DecoderBytes(sw, sh) == sw * sh * 2

\* (int)(c * scale) with float scale = (float)scaled / disp; the product is
\* exact in a float for the display sizes of DisplaySamples (powers of two)
SrcCoord(c, scaled, disp) == (c * scaled) \div disp

\* display coordinate (x, y) gets through the three "continue" of the loops
\* and is passed to draw_pixel_at
Drawn(x, y, sw, sh, dw, dh, size) ==
  LET src_y == SrcCoord(y, sh, dh)
      src_x == SrcCoord(x, sw, dw)
      idx == (src_y * sw + src_x) * 2
  IN ~(src_y >= sh) /\ ~(src_x >= sw) /\ ~(idx + 1 >= size)

\* the number of draw_pixel_at calls of one blit; the loops visit every
\* display coordinate once
DrawCalls(sw, sh, dw, dh, size) ==
  Cardinality({c \in (0..(dw - 1)) \X (0..(dh - 1)) :
                 Drawn(c[1], c[2], sw, sh, dw, dh, size)})

\* alloc_ok: one of the two heap_caps_malloc calls returned a buffer;
\* conversion_success: what jpg2rgb565 returns
process_frame(w, h, dw, dh, alloc_ok, conversion_success) ==
  LET size == rgb_buf_size(w, h)
      scale == ChooseScale(w, h, dw, dh)
      sw == ScaledDim(scale, w)
      sh == ScaledDim(scale, h)
  IN [called |-> TRUE,
      ret |-> alloc_ok /\ conversion_success,
      rgb_buf_size |-> size,
      decoder_called |-> alloc_ok,
      scale |-> scale,
      decoder_bytes |-> IF alloc_ok THEN DecoderBytes(sw, sh) ELSE 0,
      draws |-> IF alloc_ok /\ conversion_success
                THEN DrawCalls(sw, sh, dw, dh, size) ELSE 0]

\* header-valid dimensions: 1, small, the 256 of max_rgb_buf_size, the
\* default 320, above the RGB buffer limit, and the maximum 4096
DimSamples == {1, 3, 16, 256, 320, 1024, 4096}

DisplaySamples == {<<8, 8>>, <<16, 8>>, <<64, 64>>}

\* a component whose setup() opened a file with a w x h header, in front of
\* a display of one of the sample sizes
InitFrame ==
  /\ source_ = "FILE" /\ loop_video_ = TRUE /\ display_ = TRUE /\ http_url_ = "http"
  /\ src_header = "mjpg" /\ src_frames = <<>>
  /\ \E w \in DimSamples, h \in DimSamples :
       /\ stream = MJPEG_SIGNATURE \o U32Of(w) \o U32Of(h) \o U32Of(2) \o U32Of(30)
       /\ video_width_ = w /\ video_height_ = h
  /\ frame_count_ = 2 /\ video_fps_ = 30 /\ update_interval_ = 33
  /\ pc = "running" /\ failed_ = FALSE /\ network_mutex_ = "free"
  /\ spiffs_mounted_ = TRUE /\ video_file_ = TRUE /\ file_pos = FileOpenPos(HeaderSize)
  /\ http_initialized_ = FALSE /\ http_buffer_ = NullBuffer
  /\ http_buffer_size_allocated_ = 0 /\ http_buffer_size_used_ = 0 /\ http_buffer_pos_ = 0
  /\ last_update_ = 0 /\ last_http_init_attempt_ = 0 /\ current_frame_ = 0
  /\ now = 0 /\ ticks = 0
  /\ reads = 0 /\ last = NoCall /\ handed = <<>>
  /\ opens = 0 /\ last_open = "none" /\ accesses = {}
  /\ \E d \in DisplaySamples : display_width_ = d[1] /\ display_height_ = d[2]
  /\ pf = NoFrame /\ cb = NoEvent
  /\ jpg_buf = NullBuffer /\ jpg_size = 0 /\ rx_pos = 0 /\ decodes = <<>>
  /\ scan = NoScan
  /\ p_buffer = <<>> /\ p_ret = "none"

\* bool ok = process_frame(jpeg_data, jpeg_size)
ProcessFrameCall(alloc_ok, conversion_success) ==
  /\ ~pf.called
  /\ pf' = process_frame(video_width_, video_height_, display_width_, display_height_,
                         alloc_ok, conversion_success)
  /\ UNCHANGED <<config_vars, pc, failed_, network_mutex_, header_vars, update_interval_,
                 file_vars, http_vars, play_vars, last_http_init_attempt_, now, ticks,
                 obs_vars, open_obs_vars, accesses, display_width_, display_height_,
                 cb, chunk_vars, scan, parse_vars>>

NextFrame == \E alloc_ok \in BOOLEAN, conversion_success \in BOOLEAN :
               ProcessFrameCall(alloc_ok, conversion_success)

SpecFrame == InitFrame /\ [][NextFrame]_vars

\* C17: for every header-valid resolution and every display size, the bytes
\* the decoder is asked to write (scaled_width * scaled_height * 2 under the
\* chosen scale) are no more than the RGB buffer process_frame allocated,
\* which is no more than 256*256*2 bytes.
C17_DecoderFitsRgbBuffer ==
  (pf.called /\ pf.decoder_called)
  => pf.decoder_bytes <= pf.rgb_buf_size /\ pf.rgb_buf_size <= 256 * 256 * 2

\* C18: a process_frame call whose decode succeeded calls draw_pixel_at
\* once for every display coordinate, whatever the source resolution and the
\* display size.
C18_EveryPixelDrawnOnce ==
  (pf.called /\ pf.ret) => pf.draws = display_width_ * display_height_

(***************************************************************************)
(* http_event_handler.  The HTTP client calls it with HTTP_EVENT_ON_DATA   *)
(* from inside the client calls of open_http_source, that is between the   *)
(* allocation of the buffer and the return; SpecHandler takes the function *)
(* apart at these calls.  The handler only looks at the pointer and the    *)
(* two counts: the bytes themselves are not kept here, every memcpy is     *)
(* recorded in cb as the offset and the length it writes.                  *)
(***************************************************************************)
HandlerFits_nolen(used, data_len, allocated) == used <= allocated
\* http_buffer_size_used_ + evt->data_len <= http_buffer_size_allocated_
HandlerFits(used, data_len, allocated) == used + data_len <= allocated

\* case HTTP_EVENT_ON_DATA: copied, the memcpy destination, the new count
http_event_handler(buf, allocated, used, data_len) ==
  IF ~buf.null /\ allocated > 0 /\ HandlerFits(used, data_len, allocated)
  THEN [handled |-> TRUE, data_len |-> data_len, copied |-> TRUE, at |-> used,
        used |-> used + data_len]
  ELSE [handled |-> TRUE, data_len |-> data_len, copied |-> FALSE, at |-> -1,
        used |-> used]

\* evt->data_len: half and all of the client's 4096-byte receive buffer
ChunkSizes == {2048, 4096}

\* a running, not yet initialised HTTP component
InitHandler ==
  /\ source_ = "HTTP" /\ loop_video_ \in BOOLEAN /\ display_ = TRUE /\ http_url_ = "http"
  /\ src_header = "mjpg" /\ src_frames = <<>>
  /\ stream = StreamBytes(src_header, src_frames)
  /\ pc = "running" /\ failed_ = FALSE /\ network_mutex_ = "free"
  /\ spiffs_mounted_ = FALSE /\ video_file_ = FALSE /\ file_pos = 0
  /\ video_width_ = 0 /\ video_height_ = 0 /\ frame_count_ = 0 /\ video_fps_ = 0
  /\ update_interval_ = 0
  /\ http_initialized_ = FALSE /\ http_buffer_ = NullBuffer
  /\ http_buffer_size_allocated_ = 0 /\ http_buffer_size_used_ = 0 /\ http_buffer_pos_ = 0
  /\ last_update_ = 0 /\ last_http_init_attempt_ = 0 /\ current_frame_ = 0
  /\ now = 0 /\ ticks = 0
  /\ reads = 0 /\ last = NoCall /\ handed = <<>>
  /\ opens = 0 /\ last_open = "none" /\ accesses = {}
  /\ display_width_ = 64 /\ display_height_ = 64
  /\ pf = NoFrame /\ cb = NoEvent
  /\ jpg_buf = NullBuffer /\ jpg_size = 0 /\ rx_pos = 0 /\ decodes = <<>>
  /\ scan = NoScan
  /\ p_buffer = <<>> /\ p_ret = "none"

handler_frame ==
  <<config_vars, pc, failed_, header_vars, update_interval_, file_vars,
    http_initialized_, play_vars, last_http_init_attempt_, now, ticks, obs_vars,
    open_obs_vars, accesses, frame_vars, chunk_vars, scan, parse_vars>>

\* open_http_source up to the buffer: the mutex is taken, the old buffer
\* freed, the new one allocated and the counts reset; a failed allocation
\* returns false with http_buffer_ null and the counts as they were
OpenBegin(alloc_ok) ==
  /\ network_mutex_ = "free"
  /\ IF alloc_ok
     THEN /\ network_mutex_' = "held"
          /\ http_buffer_' = Buffer(<<>>)
          /\ http_buffer_size_allocated_' = HttpBufferSize
          /\ http_buffer_size_used_' = 0
          /\ http_buffer_pos_' = 0
     ELSE /\ http_buffer_' = NullBuffer
          /\ UNCHANGED <<network_mutex_, http_buffer_size_allocated_,
                         http_buffer_size_used_, http_buffer_pos_>>
  /\ UNCHANGED <<handler_frame, cb>>

\* the client delivers data_len bytes of the body to http_event_handler
HttpData(data_len) ==
  /\ network_mutex_ = "held"
  /\ cb' = http_event_handler(http_buffer_, http_buffer_size_allocated_,
                              http_buffer_size_used_, data_len)
  /\ http_buffer_size_used_' = cb'.used
  /\ UNCHANGED <<handler_frame, network_mutex_, http_buffer_,
                 http_buffer_size_allocated_, http_buffer_pos_>>

\* open_http_source returns and gives the mutex back: before the read loop
\* (the count is what the handler left), or after it with
\* http_buffer_size_used_ = total_read, the bytes esp_http_client_read
\* returned, at most max_read
OpenReturn(total_read) ==
  /\ network_mutex_ = "held"
  /\ network_mutex_' = "free"
  /\ http_buffer_size_used_' = total_read
  /\ UNCHANGED <<handler_frame, http_buffer_, http_buffer_size_allocated_,
                 http_buffer_pos_, cb>>

NextHandler ==
  \/ \E alloc_ok \in BOOLEAN : OpenBegin(alloc_ok)
  \/ \E data_len \in ChunkSizes : HttpData(data_len)
  \/ \E total_read \in {http_buffer_size_used_, http_buffer_size_allocated_} :
       OpenReturn(total_read)

SpecHandler == InitHandler /\ [][NextHandler]_vars

\* C20: after any sequence of HTTP data callbacks and open_http_source
\* attempts, http_buffer_size_used_ <= http_buffer_size_allocated_.  The
\* handler copies a chunk only when it fits, at the old count, which then
\* grows by the chunk's length; a chunk that does not fit is not copied and
\* leaves http_buffer_size_used_ as it was.
C20_UsedWithinAllocated ==
  /\ [](http_buffer_size_used_ <= http_buffer_size_allocated_)
  /\ [][(network_mutex_ = "held" /\ network_mutex_' = "held")
        => IF http_buffer_size_used_ + cb'.data_len <= http_buffer_size_allocated_
           THEN /\ cb'.copied /\ cb'.at = http_buffer_size_used_
                /\ http_buffer_size_used_' = http_buffer_size_used_ + cb'.data_len
           ELSE /\ ~cb'.copied
                /\ UNCHANGED <<http_buffer_, http_buffer_size_used_>>]_vars

\* a chunk arrived that did not fit the room left in the buffer
C20_Witness ==
  /\ cb.handled /\ ~cb.copied /\ ~http_buffer_.null
  /\ network_mutex_ = "held"
  /\ http_buffer_size_used_ > 0
  /\ http_buffer_size_used_ < http_buffer_size_allocated_
  /\ http_buffer_size_used_ + cb.data_len > http_buffer_size_allocated_

(***************************************************************************)
(* process_mjpeg_chunk (video_player.h): the marker-scanning path.  The    *)
(* HTTP client hands it the response body chunk by chunk.                  *)
(***************************************************************************)
\* for (i = 0; i < len - 1; i++) if (data[i] == 0xFF && data[i + 1] == 0xD8):
\* the first such i, or -1; len >= 1
RECURSIVE ScanSoiFrom(_, _)
ScanSoiFrom(data, i) ==
  IF ~(i < Len(data) - 1) THEN -1
  ELSE IF B(data, i) = 255 /\ B(data, i + 1) = 216 THEN i
  ELSE ScanSoiFrom(data, i + 1)

ScanSoi(data) == ScanSoiFrom(data, 0)

\* One call on a chunk of len bytes whose first start-of-image marker is at
\* soi (-1: none), as far as the pointer and the size go.  alloc_ok: malloc
\* or realloc returned a buffer.  decode: decode_jpeg(jpg_buf, jpg_size) is
\* called; keep: the old bytes stay in the new buffer.
process_mjpeg_chunk(buf_null, size, len, soi, alloc_ok) ==
  IF soi >= 0
  THEN [ret |-> alloc_ok, decode |-> ~buf_null /\ size > 0,
        null |-> ~alloc_ok, size |-> len - soi, keep |-> FALSE]
  ELSE IF ~buf_null
  THEN [ret |-> alloc_ok, decode |-> FALSE,
        null |-> ~alloc_ok, size |-> IF alloc_ok THEN size + len ELSE size,
        keep |-> TRUE]
  ELSE [ret |-> TRUE, decode |-> FALSE, null |-> TRUE, size |-> size, keep |-> FALSE]

\* two raw JPEG frames, start-of-image marker through end-of-image marker
RawFrames == {<<255, 216, 1, 255, 217>>, <<255, 216, 2, 2, 255, 217>>}

RECURSIVE Concat(_)
Concat(fs) == IF fs = <<>> THEN <<>> ELSE Head(fs) \o Concat(Tail(fs))

RxSamples == UNION {[1..n -> RawFrames] : n \in 1..MaxRxFrames}

\* a running HTTP component about to receive a body of raw JPEG frames
InitChunk ==
  /\ source_ = "HTTP" /\ loop_video_ = TRUE /\ display_ = TRUE /\ http_url_ = "http"
  /\ src_header = "jpeg" /\ src_frames \in RxSamples
  /\ stream = Concat(src_frames)
  /\ pc = "running" /\ failed_ = FALSE /\ network_mutex_ = "free"
  /\ spiffs_mounted_ = FALSE /\ video_file_ = FALSE /\ file_pos = 0
  /\ video_width_ = 0 /\ video_height_ = 0 /\ frame_count_ = 0 /\ video_fps_ = 0
  /\ update_interval_ = 0
  /\ http_initialized_ = FALSE /\ http_buffer_ = NullBuffer
  /\ http_buffer_size_allocated_ = 0 /\ http_buffer_size_used_ = 0 /\ http_buffer_pos_ = 0
  /\ last_update_ = 0 /\ last_http_init_attempt_ = 0 /\ current_frame_ = 0
  /\ now = 0 /\ ticks = 0
  /\ reads = 0 /\ last = NoCall /\ handed = <<>>
  /\ opens = 0 /\ last_open = "none" /\ accesses = {}
  /\ display_width_ = 64 /\ display_height_ = 64
  /\ pf = NoFrame /\ cb = NoEvent
  /\ jpg_buf = NullBuffer /\ jpg_size = 0 /\ rx_pos = 0 /\ decodes = <<>>
  /\ scan = NoScan
  /\ p_buffer = <<>> /\ p_ret = "none"

\* http_event_handler: process_mjpeg_chunk(evt->data, evt->data_len) on the
\* next len bytes of the body
ProcessChunk(len, alloc_ok) ==
  /\ rx_pos + len <= Len(stream)
  /\ LET data == SubSeq(stream, rx_pos + 1, rx_pos + len)
         soi == ScanSoi(data)
     IN \E st \in {process_mjpeg_chunk(jpg_buf.null, jpg_size, len, soi, alloc_ok)} :
          /\ decodes' = IF st.decode THEN Append(decodes, jpg_buf.data) ELSE decodes
          /\ jpg_buf' = IF st.null THEN NullBuffer
                        ELSE IF st.keep THEN Buffer(jpg_buf.data \o data)
                        ELSE Buffer(SubSeq(data, soi + 1, len))
          /\ jpg_size' = st.size
  /\ rx_pos' = rx_pos + len
  /\ UNCHANGED <<config_vars, pc, failed_, network_mutex_, header_vars, update_interval_,
                 file_vars, http_vars, play_vars, last_http_init_attempt_, now, ticks,
                 obs_vars, open_obs_vars, accesses, frame_vars, cb, scan, parse_vars>>

NextChunk == \E len \in 1..MaxChunkLen, alloc_ok \in BOOLEAN : ProcessChunk(len, alloc_ok)

SpecChunk == InitChunk /\ [][NextChunk]_vars

\* the offset in the body right after frame k
RECURSIVE FrameEnd(_)
FrameEnd(k) == IF k = 0 THEN 0 ELSE FrameEnd(k - 1) + Len(src_frames[k])

\* C21: whatever the positions at which the body is cut into chunks, the
\* k-th buffer process_mjpeg_chunk passes to decode_jpeg is the k-th frame of
\* the body, from its start-of-image marker through its end-of-image marker
\* and nothing else, and it is passed only after the frame's end-of-image
\* marker has been delivered.
C21_ChunkFramesExact ==
  /\ Len(decodes) <= Len(src_frames)
  /\ \A k \in 1..Len(decodes) :
       decodes[k] = src_frames[k] /\ FrameEnd(k) <= rx_pos

\* SpecAccum: the same function on long bodies.  The bytes are not kept, a
\* chunk is its length and the place of its first start-of-image marker;
\* decodes is not recorded.
InitAccum ==
  /\ source_ = "HTTP" /\ loop_video_ = TRUE /\ display_ = TRUE /\ http_url_ = "http"
  /\ src_header = "jpeg" /\ src_frames = <<>> /\ stream = <<>>
  /\ pc = "running" /\ failed_ = FALSE /\ network_mutex_ = "free"
  /\ spiffs_mounted_ = FALSE /\ video_file_ = FALSE /\ file_pos = 0
  /\ video_width_ = 0 /\ video_height_ = 0 /\ frame_count_ = 0 /\ video_fps_ = 0
  /\ update_interval_ = 0
  /\ http_initialized_ = FALSE /\ http_buffer_ = NullBuffer
  /\ http_buffer_size_allocated_ = 0 /\ http_buffer_size_used_ = 0 /\ http_buffer_pos_ = 0
  /\ last_update_ = 0 /\ last_http_init_attempt_ = 0 /\ current_frame_ = 0
  /\ now = 0 /\ ticks = 0
  /\ reads = 0 /\ last = NoCall /\ handed = <<>>
  /\ opens = 0 /\ last_open = "none" /\ accesses = {}
  /\ display_width_ = 64 /\ display_height_ = 64
  /\ pf = NoFrame /\ cb = NoEvent
  /\ jpg_buf = NullBuffer /\ jpg_size = 0 /\ rx_pos = 0 /\ decodes = <<>>
  /\ scan = NoScan
  /\ p_buffer = <<>> /\ p_ret = "none"

AccumChunk(len, soi, alloc_ok) ==
  /\ jpg_size + len <= MaxAccum
  /\ \E st \in {process_mjpeg_chunk(jpg_buf.null, jpg_size, len, soi, alloc_ok)} :
       /\ jpg_buf' = IF st.null THEN NullBuffer ELSE Buffer(<<>>)
       /\ jpg_size' = st.size
  /\ UNCHANGED <<config_vars, pc, failed_, network_mutex_, header_vars, update_interval_,
                 file_vars, http_vars, play_vars, last_http_init_attempt_, now, ticks,
                 obs_vars, open_obs_vars, accesses, frame_vars, cb, rx_pos, decodes,
                 scan, parse_vars>>

\* a chunk without a start-of-image marker, or with one at its first byte,
\* or with one in its middle
NextAccum ==
  \E len \in ChunkSizes, soi \in {-1, 0, 1024}, alloc_ok \in BOOLEAN :
    AccumChunk(len, soi, alloc_ok)

SpecAccum == InitAccum /\ [][NextAccum]_vars

\* C22: whatever chunks process_mjpeg_chunk is given, with or without
\* further start-of-image markers, the bytes accumulated for the frame in
\* progress stay within a fixed budget: jpg_size never exceeds 1 MiB, the
\* largest frame the player accepts elsewhere.
C22_AccumulationBounded == jpg_size <= MaxFrameSize

\* C23: after setup() the component is marked failed exactly when the
\* display is not configured, or the source is FILE and open_file_source
\* failed; with an HTTP source and a display it is never marked failed, and
\* http_initialized_ is false until loop() has run.
C23_SetupFailsOnlyWhenFatal ==
  pc = "running"
  => /\ failed_ <=> (~display_ \/ (source_ = "FILE" /\ ~video_file_))
     /\ (source_ = "HTTP" /\ display_) => ~failed_ /\ (ticks = 0 => ~http_initialized_)

\* C23, amended: after setup() the component is marked failed exactly when
\* the display is not configured, or the network mutex could not be created,
\* or the source is FILE and open_file_source failed; with an HTTP source, a
\* display and a mutex it is not marked failed, and http_initialized_ is
\* false until loop() has run.
C23_SetupFailsAlsoWithoutMutex ==
  pc = "running"
  => /\ failed_ <=> \/ ~display_
                    \/ network_mutex_ = Null
                    \/ source_ = "FILE" /\ ~video_file_
     /\ (source_ = "HTTP" /\ display_) => (ticks = 0 => ~http_initialized_)

\* setup() ran with a display and an HTTP source and got no mutex
C23_Witness ==
  /\ pc = "running" /\ source_ = "HTTP" /\ display_
  /\ network_mutex_ = Null /\ failed_ /\ ~http_initialized_

\* C24: once the HTTP source is initialised, whatever read_next_frame calls
\* have been made, 20 <= http_buffer_pos_ <= http_buffer_size_used_ <=
\* http_buffer_size_allocated_, and every byte range passed to process_frame
\* lies inside [20, http_buffer_size_used_).
C24_CursorWithinBuffer ==
  (source_ = "HTTP" /\ http_initialized_)
  => /\ 20 <= http_buffer_pos_
     /\ http_buffer_pos_ <= http_buffer_size_used_
     /\ http_buffer_size_used_ <= http_buffer_size_allocated_
     /\ \A i \in 1..Len(handed) :
          /\ 20 <= handed[i][1]
          /\ handed[i][1] + handed[i][2] <= http_buffer_size_used_

\* a frame was delivered, a later one was rejected after its header was
\* skipped, and a further call found the end of the buffer and restarted
C24_Witness ==
  /\ source_ = "HTTP" /\ http_initialized_ /\ loop_video_
  /\ reads >= 3 /\ Len(handed) >= 2
  /\ last.before + 8 >= http_buffer_size_used_
  /\ last.before < http_buffer_size_used_
  /\ last.hdr_off = 20

(***************************************************************************)
(* SpecReplay: read_next_frame called again and again on an initialised    *)
(* HTTP source with the loop flag set, without a limit on the number of    *)
(* calls; reads and handed are not counted here.                           *)
(***************************************************************************)
\* the sample streams whose first frame is well-formed
ReplaySamples ==
  {fs \in FrameSeqs : fs # <<>> /\ WellFormed(<<fs[1]>>)}

\* the component after an open_http_source call that returned true
InitReplay ==
  /\ source_ = "HTTP" /\ loop_video_ = TRUE /\ display_ = TRUE /\ http_url_ = "http"
  /\ src_header \in {"mjpg", "jpeg"} /\ src_frames \in ReplaySamples
  /\ stream = StreamBytes(src_header, src_frames)
  /\ pc = "running" /\ failed_ = FALSE /\ network_mutex_ = "free"
  /\ spiffs_mounted_ = FALSE /\ video_file_ = FALSE /\ file_pos = 0
  /\ \E r \in {parse_mjpeg_header(stream)} :
       /\ video_width_ = r.width /\ video_height_ = r.height
       /\ frame_count_ = r.frame_count /\ video_fps_ = r.fps
  /\ update_interval_ = 33
  /\ http_initialized_ = TRUE /\ http_buffer_ = Buffer(stream)
  /\ http_buffer_size_allocated_ = HttpBufferSize
  /\ http_buffer_size_used_ = Len(stream)
  /\ http_buffer_pos_ = HeaderSize
  /\ last_update_ = 0 /\ last_http_init_attempt_ = 5020 /\ current_frame_ = 0
  /\ now = 5020 /\ ticks = 0
  /\ reads = 0 /\ last = NoCall /\ handed = <<>>
  /\ opens = 1 /\ last_open = "ok"
  /\ accesses = {[by |-> "open_http_source", mutex |-> "held"],
                 [by |-> "http_event_handler", mutex |-> "held"]}
  /\ display_width_ = 64 /\ display_height_ = 64
  /\ pf = NoFrame /\ cb = NoEvent
  /\ jpg_buf = NullBuffer /\ jpg_size = 0 /\ rx_pos = 0 /\ decodes = <<>>
  /\ scan = NoScan
  /\ p_buffer = <<>> /\ p_ret = "none"

\* bool ok = read_next_frame()
ReplayRead(decoded) ==
  /\ \E r \in {read_next_frame_http(http_buffer_, http_buffer_size_used_,
                                    http_buffer_pos_, decoded)} :
       /\ http_buffer_pos_' = r.cursor
       /\ last' = [op |-> "read_next_frame", ret |-> r.ret, before |-> http_buffer_pos_,
                   hdr_off |-> r.hdr_off, range |-> r.range]
  /\ UNCHANGED <<config_vars, pc, failed_, network_mutex_, header_vars, update_interval_,
                 file_vars, http_initialized_, http_buffer_, http_buffer_size_allocated_,
                 http_buffer_size_used_, play_vars, last_http_init_attempt_, now, ticks,
                 reads, handed, open_obs_vars, accesses, frame_vars, cb, chunk_vars,
                 scan, parse_vars>>

NextReplay == \E decoded \in BOOLEAN : ReplayRead(decoded)

\* loop() keeps being called
SpecReplay == InitReplay /\ [][NextReplay]_vars /\ WF_vars(NextReplay)

\* the last call examined the frame header at 20 and passed the first
\* frame's payload to process_frame
FirstFrameHanded ==
  /\ last.op = "read_next_frame"
  /\ last.hdr_off = 20
  /\ last.range = <<28, src_frames[1].len>>

\* C25: with the loop flag set and a well-formed, fully buffered first frame
\* at offset 20, from every cursor position that read_next_frame calls can
\* leave (after a corrupt size field, after a payload that is not all there)
\* further calls pass the first frame's payload to the decoder again.
C25_LoopNeverStuck == []<>FirstFrameHanded

\* a call that started past the end of the first frame, where a rejected
\* frame had left the cursor, restarted and passed the first frame
C25_Witness ==
  /\ FirstFrameHanded
  /\ ~WellFormed(src_frames)
  /\ last.before >= 20 + 8 + src_frames[1].len + 8

\* C26: open_http_source gives network_mutex_ back on every return that
\* follows xSemaphoreTake, so the mutex is never held between two loop()
\* ticks and no attempt finds it held by an earlier one; an attempt that
\* cannot take the mutex within the wait fails alone: it changes nothing,
\* does not mark the component failed, and later attempts go on.
C26_MutexReleasedOnReturn ==
  /\ [](network_mutex_ # "held")
  /\ [][opens' = opens + 1
        => /\ last_open' \notin BeforeMutex => network_mutex_' = "free"
           /\ last_open' = "mutex_timeout"
              => /\ ~failed_'
                 /\ UNCHANGED <<http_vars, header_vars, update_interval_, play_vars,
                                network_mutex_>>]_vars

\* a second attempt got past xSemaphoreTake after an earlier attempt had
\* returned, and failed after the buffer was allocated
C26_Witness ==
  /\ opens >= 2 /\ last_open \in {"alloc_failed", "client_failed", "connect_failed",
                                  "bad_status", "short", "bad_header"}
  /\ http_buffer_size_allocated_ = HttpBufferSize
  /\ network_mutex_ = "free" /\ ~failed_

(***************************************************************************)
(* SpecScan: the while loop of the raw-JPEG path of parse_mjpeg_header,    *)
(* one iteration per step.  scan.top is the highest index of buffer read   *)
(* so far, scan.n the number of iterations.                                *)
(***************************************************************************)
SegmentAdvance_lenonly(segment_len) == segment_len
\* pos += 2 + segment_len
SegmentAdvance(segment_len) == 2 + segment_len

\* the loop test and one pass through the body at scan position pos: where
\* the scan is afterwards, whether it goes on, and the highest index read
scan_iteration(buffer, pos) ==
  IF ~(pos + 8 < Len(buffer)) THEN [pc |-> "done", hit |-> FALSE, pos |-> pos, top |-> -1]
  ELSE IF B(buffer, pos) = 255 /\ IsSofMarker(B(buffer, pos + 1))
       THEN [pc |-> "done", hit |-> TRUE, pos |-> pos, top |-> pos + 8]
  ELSE IF B(buffer, pos + 1) = 216 \/ B(buffer, pos + 1) = 217
       THEN [pc |-> "loop", hit |-> FALSE, pos |-> pos + 2, top |-> pos + 1]
  ELSE [pc |-> "loop", hit |-> FALSE,
        pos |-> pos + SegmentAdvance(BE16(buffer, pos + 2)), top |-> pos + 3]

\* parse_mjpeg_header was called on a buffer of at least 20 bytes that
\* starts with FF D8: buffer[0..3] were read, the scan starts at 2
InitScan ==
  /\ MembersInit
  /\ source_ = "FILE" /\ loop_video_ = TRUE /\ display_ = TRUE /\ http_url_ = "http"
  /\ src_header = "jpeg" /\ src_frames = <<>>
  /\ stream = StreamBytes(src_header, src_frames)
  /\ display_width_ = 64 /\ display_height_ = 64
  /\ p_buffer \in {b \in JpegSamples : Len(b) >= HeaderSize}
  /\ p_ret = "none"

ScanStart ==
  /\ scan = NoScan
  /\ scan' = [pc |-> "loop", hit |-> FALSE, pos |-> 2, top |-> 3, n |-> 0]
  /\ UNCHANGED <<config_vars, pc, failed_, network_mutex_, header_vars, update_interval_,
                 file_vars, http_vars, play_vars, last_http_init_attempt_, now, ticks,
                 obs_vars, open_obs_vars, accesses, frame_vars, cb, chunk_vars,
                 parse_vars>>

ScanStep ==
  /\ scan.pc = "loop"
  /\ \E it \in {scan_iteration(p_buffer, scan.pos)} :
       scan' = [pc |-> it.pc, hit |-> it.hit, pos |-> it.pos,
                top |-> IF it.top > scan.top THEN it.top ELSE scan.top,
                n |-> scan.n + 1]
  /\ UNCHANGED <<config_vars, pc, failed_, network_mutex_, header_vars, update_interval_,
                 file_vars, http_vars, play_vars, last_http_init_attempt_, now, ticks,
                 obs_vars, open_obs_vars, accesses, frame_vars, cb, chunk_vars,
                 parse_vars>>

NextScan == ScanStart \/ ScanStep

SpecScan == InitScan /\ [][NextScan]_vars

\* C27: the start-of-frame scan ends for every buffer: an iteration that
\* goes on leaves the scan position strictly higher than it found it, also
\* when the segment declares length 0, and the loop goes on only below
\* buffer_size - 8; no byte at an index >= buffer_size is read, whatever
\* lengths the segments declare.  The scan ends where sof_scan says.
C27_ScanTerminatesInBounds ==
  /\ [](scan.pc # "none"
        => /\ scan.top < Len(p_buffer)
           /\ scan.n <= Len(p_buffer)
           /\ scan.pc = "done"
              => /\ scan.pos = sof_scan(p_buffer, 2).pos
                 /\ scan.hit = sof_scan(p_buffer, 2).hit)
  /\ [][(scan.pc = "loop" /\ scan'.pc = "loop") => scan'.pos > scan.pos]_vars

\* the scan went over a segment that declares length 0 and ended
C27_Witness ==
  /\ scan.pc = "done" /\ scan.n >= 2
  /\ B(p_buffer, 2) = 255 /\ B(p_buffer, 3) = 224 /\ BE16(p_buffer, 4) = 0

====
